---- MODULE Spec2Model ----
(***************************************************************************)
(* A model of the flaskr authentication blueprint (flaskr/auth.py) and of  *)
(* the application factory (flaskr/__init__.py).                           *)
(*                                                                         *)
(* Each browser holds a signed session cookie and has at most one request  *)
(* in flight.  A request copies the cookie into its session object, runs   *)
(* the before_app_request hook load_logged_in_user, then the view the      *)
(* router selected; the response writes the session back into the cookie.  *)
(* Requests of different browsers interleave at these steps and at the     *)
(* database calls of register (INSERT, then commit).                       *)
(***************************************************************************)
EXTENDS Naturals, Sequences, FiniteSets, TLC

VARIABLES
    user,       \* the committed rows of table user
    writer,     \* the browser whose request holds the database write lock, or None
    pending,    \* pending[b]: the table as the open transaction of b's request wrote it
    cookie,     \* cookie[b]: the session stored in browser b's cookie
    pc,         \* pc[b]: position of b's request
    req,        \* req[b]: the request in flight (or the last one answered)
    session,    \* session[b]: the request's session object
    g,          \* g[b]: g.user of the request
    resp,       \* resp[b]: the response of the request
    propagate   \* exceptions propagate out of the application (debug / testing)

vars == <<user, writer, pending, cookie, pc, req, session, g, resp, propagate>>

None == "None"

\* The row fetchone() returns when no row matches (Python's None), and the
\* test the code makes of it (`user is None`, `g.user is None`).
NoRow == [id |-> 0, username |-> "", password |-> ""]
IsNone(row) == row.id = 0

\* ---------------------------------------------------------------- bounds

\* Largest value of a view argument (a URL variable such as a post id).
MaxArg == 1

Browsers == {"b1", "b2"}
Usernames == {"", "alice", "bob"}
\* the passwords submitted to login, and those submitted to register
Passwords == {"", "secret1", "wrong"}
NewPasswords == {"", "secret1"}

ArgValues == 1..MaxArg
\* positional argument lists and keyword argument dicts of a view call
ArgLists == {<<>>} \cup {<<a>> : a \in ArgValues}
NoKwargs == [k \in {} |-> 0]
KwargDicts == {NoKwargs} \cup {[k \in {"id"} |-> a] : a \in ArgValues}

\* ---------------------------------------------------------------- werkzeug.security

\* generate_password_hash: a one-way hash, never the plaintext string.  The
\* random salt is left out: no handler reads it.
generate_password_hash(password) == "pbkdf2$" \o password

\* check_password_hash: re-hashes the candidate the way the stored value was
\* hashed and compares; a stored value that is no hash verifies nothing.
check_password_hash(pwhash, password) == pwhash = "pbkdf2$" \o password

\* ---------------------------------------------------------------- session

EmptySession == [k \in {} |-> 0]

SessionSet(s, k, v) == [x \in (DOMAIN s) \cup {k} |-> IF x = k THEN v ELSE s[x]]

SessionPop(s, k) == [x \in (DOMAIN s) \ {k} |-> s[x]]

\* flash(message): appends to the list kept under session['_flashes']
flash(s, message) ==
    SessionSet(s, "_flashes",
               Append(IF "_flashes" \in DOMAIN s THEN s["_flashes"] ELSE <<>>, message))

\* ---------------------------------------------------------------- responses

\* kind: "redirect" (target: the endpoint), "render" (target: the template,
\* flashed: the messages shown), "text" (target: the body), "view" (the view a
\* gate wraps ran; called: the arguments it received), "error" (an uncaught
\* exception; target: its type).
Response(kind, target, flashed, called) ==
    [kind |-> kind, target |-> target, flashed |-> flashed, called |-> called]

Call(args, kwargs) == [args |-> args, kwargs |-> kwargs]
NoCall == Call(<<>>, NoKwargs)

NoResponse == Response(None, None, <<>>, NoCall)

\* An uncaught exception of a view
Raise(exc) == Response("error", exc, <<>>, NoCall)

\* The endpoints create_app registers: hello, and the views of the auth
\* blueprint under the blueprint's name.
Endpoints == {"static", "hello", "auth.register", "auth.login", "auth.logout"}

\* redirect(url_for(endpoint)): url_for raises BuildError for an endpoint no
\* route was registered under.
redirect_url_for(endpoint) ==
    IF endpoint \in Endpoints
    THEN Response("redirect", endpoint, <<>>, NoCall)
    ELSE Raise("BuildError")

\* render_template: the page shows the flashed messages, which takes them
\* out of the session (get_flashed_messages).
render_template(template, s) ==
    [session |-> SessionPop(s, "_flashes"),
     resp    |-> Response("render", template,
                          IF "_flashes" \in DOMAIN s THEN s["_flashes"] ELSE <<>>,
                          NoCall)]

\* ---------------------------------------------------------------- table user

\* SELECT * FROM user WHERE username = ?  (fetchone)
SelectByUsername(table, username) ==
    IF \E r \in table : r.username = username
    THEN CHOOSE r \in table : r.username = username
    ELSE NoRow

\* SELECT * FROM user WHERE id = ?  (fetchone)
SelectById(table, id) ==
    IF \E r \in table : r.id = id
    THEN CHOOSE r \in table : r.id = id
    ELSE NoRow

\* The id the table gives a row inserted without one
NextId(table) == Cardinality(table) + 1

\* A variant of ExecuteInsert: INSERT OR REPLACE, which puts the new row in
\* the place of the row that holds the username.
InsertOrReplace(table, username, password) ==
    [error |-> None,
     table |-> {r \in table : r.username # username}
               \cup {[id |-> NextId(table), username |-> username, password |-> password]}]

\* INSERT INTO user (username,password) VALUES (?,?): an sqlite3.IntegrityError
\* occurs if the username already exists; else the table gains the row.
ExecuteInsert(table, username, password) ==
    IF \E r \in table : r.username = username
    THEN [error |-> "IntegrityError", table |-> table]
    ELSE [error |-> None,
          table |-> table \cup {[id |-> NextId(table), username |-> username,
                                 password |-> password]}]

\* ---------------------------------------------------------------- requests

Request(route, method, username, password, args, kwargs) ==
    [route |-> route, method |-> method, username |-> username,
     password |-> password, args |-> args, kwargs |-> kwargs]

NoRequest == Request(None, "GET", "", "", <<>>, NoKwargs)

\* The requests a browser sends to the routes of the application, and the
\* calls of a view wrapped by login_required: "gated" is such a view reached
\* through the router, which passes the URL variables as keyword arguments
\* only; "direct" is a call of the wrapper that passes positional arguments.
Requests ==
    {Request(r, "GET", "", "", <<>>, NoKwargs) :
        r \in {"register", "login", "logout", "hello"}}
    \cup {Request("register", "POST", u, p, <<>>, NoKwargs) :
        u \in Usernames, p \in NewPasswords}
    \cup {Request("login", "POST", u, p, <<>>, NoKwargs) :
        u \in Usernames, p \in Passwords}
    \cup {Request("gated", "GET", "", "", <<>>, kw) : kw \in KwargDicts}
    \cup {Request("direct", "GET", "", "", a, kw) :
        a \in ArgLists \ {<<>>}, kw \in KwargDicts}

\* ---------------------------------------------------------------- auth.py

\* A variant of RegisterError that looks at the password first.
RegisterErrorPasswordFirst(username, password) ==
    IF password = "" THEN "Password is required"
    ELSE IF username = "" THEN "Username is required"
    ELSE None

\* register, lines 25-28: the validation of the form
RegisterError(username, password) ==
    IF username = "" THEN "Username is required"
    ELSE IF password = "" THEN "Password is required"
    ELSE None

\* A variant of NewUserValues that stores the password as submitted.
PlaintextValues(username, password) ==
    [username |-> username, password |-> password]

\* register, lines 32-35: the values the INSERT is given
NewUserValues(username, password) ==
    [username |-> username, password |-> generate_password_hash(password)]

\* register, lines 37-39: the error of a uniqueness violation
AlreadyRegistered(username) == "User " \o username \o " is already registered."

\* register, lines 44-47: an error is flashed and the form rendered again
RegisterFailed(s, error) == render_template("auth/register.html", flash(s, error))

\* A variant of RegisterDuplicate that lets the IntegrityError pass as a success.
RegisterDuplicateIgnored(s, username) ==
    [session |-> s, resp |-> redirect_url_for("auth.login")]

\* register, lines 37-47: the IntegrityError of the INSERT becomes the error
RegisterDuplicate(s, username) == RegisterFailed(s, AlreadyRegistered(username))

\* register, line 42: the insertion was committed
RegisterSucceeded(s) == [session |-> s, resp |-> redirect_url_for("auth.login")]

\* A variant of login that clears the session before it checks the form.
login_clears_first(r, s, table) ==
    IF r.method = "POST"
    THEN LET row == SelectByUsername(table, r.username)
             error == IF IsNone(row) THEN "Incorrect username."
                      ELSE IF ~check_password_hash(row.password, r.password)
                           THEN "Incorrect password."
                           ELSE None
         IN  IF error = None
             THEN [session |-> SessionSet(EmptySession, "user_id", row.id),
                   resp    |-> redirect_url_for("index")]
             ELSE render_template("auth/login.html", flash(EmptySession, error))
    ELSE render_template("auth/login.html", s)

\* login, lines 79-105
login(r, s, table) ==
    IF r.method = "POST"
    THEN LET row == SelectByUsername(table, r.username)
             error == IF IsNone(row) THEN "Incorrect username."
                      ELSE IF ~check_password_hash(row.password, r.password)
                           THEN "Incorrect password."
                           ELSE None
         IN  IF error = None
             THEN [session |-> SessionSet(EmptySession, "user_id", row.id),
                   resp    |-> redirect_url_for("index")]
             ELSE render_template("auth/login.html", flash(s, error))
    ELSE render_template("auth/login.html", s)

\* load_logged_in_user, lines 110-118: the value of g.user
load_logged_in_user(s, table) ==
    IF "user_id" \notin DOMAIN s
    THEN NoRow
    ELSE SelectById(table, s["user_id"])

\* logout, lines 125-127
logout(s) == [session |-> EmptySession, resp |-> redirect_url_for("index")]

\* The view a gate wraps: it answers with the arguments it was given.
view(args, kwargs) == Response("view", "200", <<>>, Call(args, kwargs))

\* A variant of wrapped_view without the test of g.user.
wrapped_view_ungated(g_user, args, kwargs) ==
    IF Len(args) > 0
    THEN Raise("TypeError")
    ELSE view(<<>>, kwargs)

\* A variant of wrapped_view that calls the view without its arguments.
wrapped_view_no_kwargs(g_user, args, kwargs) ==
    IF Len(args) > 0
    THEN Raise("TypeError")
    ELSE IF IsNone(g_user)
         THEN redirect_url_for("auth.login")
         ELSE view(<<>>, NoKwargs)

\* login_required.wrapped_view(**kwargs), lines 131-137: a positional argument
\* is a TypeError of the call, raised before the body runs.
wrapped_view(g_user, args, kwargs) ==
    IF Len(args) > 0
    THEN Raise("TypeError")
    ELSE IF IsNone(g_user)
         THEN redirect_url_for("auth.login")
         ELSE view(<<>>, kwargs)

\* create_app, lines 35-37
hello == Response("text", "Hello, World!", <<>>, NoCall)

\* ---------------------------------------------------------------- the request cycle

\* The cookie after the response.  The session is saved into every response
\* the application makes, the 500 page of an uncaught exception included;
\* when exceptions propagate (debug, testing) the application makes no
\* response and the browser keeps its cookie.
SaveSession(old, out, prop) ==
    IF out.resp.kind = "error" /\ prop THEN old ELSE out.session

Respond(b, out) ==
    /\ resp' = [resp EXCEPT ![b] = out.resp]
    /\ session' = [session EXCEPT ![b] = out.session]
    /\ cookie' = [cookie EXCEPT ![b] = SaveSession(cookie[b], out, propagate)]
    /\ pc' = [pc EXCEPT ![b] = "done"]

Init ==
    /\ user = {}
    /\ writer = None
    /\ pending = [b \in Browsers |-> {}]
    /\ cookie = [b \in Browsers |-> EmptySession]
    /\ pc = [b \in Browsers |-> "idle"]
    /\ req = [b \in Browsers |-> NoRequest]
    /\ session = [b \in Browsers |-> EmptySession]
    /\ g = [b \in Browsers |-> NoRow]
    /\ resp = [b \in Browsers |-> NoResponse]
    /\ propagate \in BOOLEAN

\* The browser sends a request; the request context opens the session from
\* the cookie.
Begin(b, r) ==
    /\ pc[b] \in {"idle", "done"}
    /\ req' = [req EXCEPT ![b] = r]
    /\ session' = [session EXCEPT ![b] = cookie[b]]
    /\ g' = [g EXCEPT ![b] = NoRow]
    /\ resp' = [resp EXCEPT ![b] = NoResponse]
    /\ pc' = [pc EXCEPT ![b] = "before"]
    /\ UNCHANGED <<user, writer, pending, cookie, propagate>>

\* before_app_request
LoadLoggedInUser(b) ==
    /\ pc[b] = "before"
    /\ g' = [g EXCEPT ![b] = load_logged_in_user(session[b], user)]
    /\ pc' = [pc EXCEPT ![b] = "view"]
    /\ UNCHANGED <<user, writer, pending, cookie, req, session, resp, propagate>>

\* register, GET: the form
RegisterGet(b) ==
    /\ pc[b] = "view" /\ req[b].route = "register" /\ req[b].method = "GET"
    /\ Respond(b, render_template("auth/register.html", session[b]))
    /\ UNCHANGED <<user, writer, pending, req, g, propagate>>

\* register, POST, a form that fails the validation
RegisterInvalid(b) ==
    /\ pc[b] = "view" /\ req[b].route = "register" /\ req[b].method = "POST"
    /\ RegisterError(req[b].username, req[b].password) # None
    /\ Respond(b, RegisterFailed(session[b],
                                 RegisterError(req[b].username, req[b].password)))
    /\ UNCHANGED <<user, writer, pending, req, g, propagate>>

\* register, POST, db.execute(INSERT): the statement waits for the write lock
\* of the database; an IntegrityError is caught, else the transaction holds
\* the lock until the commit.
RegisterExecute(b) ==
    /\ pc[b] = "view" /\ req[b].route = "register" /\ req[b].method = "POST"
    /\ RegisterError(req[b].username, req[b].password) = None
    /\ writer = None
    /\ LET v == NewUserValues(req[b].username, req[b].password)
           r == ExecuteInsert(user, v.username, v.password)
       IN  IF r.error = "IntegrityError"
           THEN /\ Respond(b, RegisterDuplicate(session[b], req[b].username))
                /\ UNCHANGED <<user, writer, pending, req, g, propagate>>
           ELSE /\ writer' = b
                /\ pending' = [pending EXCEPT ![b] = r.table]
                /\ pc' = [pc EXCEPT ![b] = "commit"]
                /\ UNCHANGED <<user, cookie, req, session, g, resp, propagate>>

\* register, POST, db.commit() and the redirect
RegisterCommit(b) ==
    /\ pc[b] = "commit"
    /\ writer = b
    /\ user' = pending[b]
    /\ writer' = None
    /\ pending' = [pending EXCEPT ![b] = {}]
    /\ Respond(b, RegisterSucceeded(session[b]))
    /\ UNCHANGED <<req, g, propagate>>

Login(b) ==
    /\ pc[b] = "view" /\ req[b].route = "login"
    /\ Respond(b, login(req[b], session[b], user))
    /\ UNCHANGED <<user, writer, pending, req, g, propagate>>

Logout(b) ==
    /\ pc[b] = "view" /\ req[b].route = "logout"
    /\ Respond(b, logout(session[b]))
    /\ UNCHANGED <<user, writer, pending, req, g, propagate>>

Hello(b) ==
    /\ pc[b] = "view" /\ req[b].route = "hello"
    /\ Respond(b, [session |-> session[b], resp |-> hello])
    /\ UNCHANGED <<user, writer, pending, req, g, propagate>>

\* a view wrapped by login_required
Gated(b) ==
    /\ pc[b] = "view" /\ req[b].route \in {"gated", "direct"}
    /\ Respond(b, [session |-> session[b],
                   resp    |-> wrapped_view(g[b], req[b].args, req[b].kwargs)])
    /\ UNCHANGED <<user, writer, pending, req, g, propagate>>

Next ==
    \E b \in Browsers :
        \/ \E r \in Requests : Begin(b, r)
        \/ LoadLoggedInUser(b)
        \/ RegisterGet(b)
        \/ RegisterInvalid(b)
        \/ RegisterExecute(b)
        \/ RegisterCommit(b)
        \/ Login(b)
        \/ Logout(b)
        \/ Hello(b)
        \/ Gated(b)

Spec == Init /\ [][Next]_vars

TypeOK ==
    /\ writer \in Browsers \cup {None}
    /\ \A b \in Browsers : pc[b] \in {"idle", "before", "view", "commit", "done"}
    /\ \A b \in Browsers : req[b] \in Requests \cup {NoRequest}

\* ---------------------------------------------------------------- properties

Authenticated(s) == "user_id" \in DOMAIN s

Redirect(endpoint) == Response("redirect", endpoint, <<>>, NoCall)

\* The step in which the view of b's request is entered
ViewRuns(b, route, method) ==
    /\ pc[b] = "view" /\ pc'[b] # "view"
    /\ req[b].route = route /\ req[b].method = method

\* b's register request is answered with the form and the error, and the
\* database is not touched
Rejected(b, message) ==
    /\ pc'[b] = "done"
    /\ resp'[b] = Response("render", "auth/register.html", <<message>>, NoCall)
    /\ user' = user /\ writer' = writer /\ pending' = pending

\* b's login request carries the username of a row and the row's password
ValidCredentials(b) ==
    /\ ~IsNone(SelectByUsername(user, req[b].username))
    /\ check_password_hash(SelectByUsername(user, req[b].username).password,
                           req[b].password)

\* C1: a view wrapped by login_required that the router dispatches to answers
\* with a redirect to auth.login when g.user is None and runs the view
\* otherwise; the view runs only in a request whose session holds the id of
\* an existing row of user, which is g.user.
GateContract ==
    /\ \A b \in Browsers :
          pc[b] = "done" /\ req[b].route = "gated" =>
              IF IsNone(g[b])
              THEN resp[b] = Redirect("auth.login")
              ELSE resp[b].kind = "view"
    /\ \A b \in Browsers :
          resp[b].kind = "view" =>
              /\ g[b] \in user
              /\ Authenticated(session[b])
              /\ g[b].id = session[b]["user_id"]

GateBothWays ==
    \E b1, b2 \in Browsers :
        /\ pc[b1] = "done" /\ req[b1].route = "gated" /\ resp[b1].kind = "view"
        /\ pc[b2] = "done" /\ req[b2].route = "gated" /\ IsNone(g[b2])
        /\ resp[b2].kind = "redirect"

\* C2 (as stated): with a user loaded, the wrapper calls the view with exactly
\* the positional and keyword arguments it was given and returns its result.
GateForwardsAllArguments ==
    \A b \in Browsers :
        pc[b] = "done" /\ req[b].route \in {"gated", "direct"} /\ ~IsNone(g[b]) =>
            resp[b] = view(req[b].args, req[b].kwargs)

\* C2 (amended): with a user loaded, the wrapper calls the view with exactly
\* the keyword arguments it was given and returns its result; a call that
\* passes a positional argument raises TypeError and the view does not run.
GateForwardsKeywordArguments ==
    \A b \in Browsers :
        pc[b] = "done" /\ req[b].route \in {"gated", "direct"} /\ ~IsNone(g[b]) =>
            IF req[b].args = <<>>
            THEN resp[b] = view(<<>>, req[b].kwargs)
            ELSE resp[b] = Raise("TypeError")

GateCalledWithArguments ==
    \E b1, b2 \in Browsers :
        /\ pc[b1] = "done" /\ req[b1].route = "gated" /\ resp[b1].kind = "view"
        /\ req[b1].kwargs # NoKwargs
        /\ pc[b2] = "done" /\ req[b2].route = "direct" /\ ~IsNone(g[b2])
        /\ resp[b2].kind = "error"

\* C3: a login POST answers "Incorrect username." with the form when no row
\* has the username, "Incorrect password." with the form when the password
\* does not verify, and otherwise leaves the user's id as the only value of
\* the session and redirects to index.
LoginOutcomes ==
    [][\A b \in Browsers :
          ViewRuns(b, "login", "POST") =>
              LET row == SelectByUsername(user, req[b].username)
              IN  IF IsNone(row)
                  THEN resp'[b] = Response("render", "auth/login.html",
                                           <<"Incorrect username.">>, NoCall)
                  ELSE IF ~check_password_hash(row.password, req[b].password)
                  THEN resp'[b] = Response("render", "auth/login.html",
                                           <<"Incorrect password.">>, NoCall)
                  ELSE /\ session'[b] = [k \in {"user_id"} |-> row.id]
                       /\ cookie'[b] = [k \in {"user_id"} |-> row.id]
                       /\ resp'[b] = Redirect("index")]_vars

RegisterValidates ==
    [][\A b \in Browsers :
          ViewRuns(b, "register", "POST") =>
              /\ req[b].username = "" => Rejected(b, "Username is required")
              /\ req[b].username # "" /\ req[b].password = ""
                     => Rejected(b, "Password is required")]_vars

RegisterRefusedBothEmpty ==
    \E b1, b2 \in Browsers :
        /\ pc[b1] = "done" /\ req[b1].route = "register" /\ req[b1].method = "POST"
        /\ req[b1].username = "" /\ req[b1].password = ""
        /\ resp[b1].flashed = <<"Username is required">>
        /\ pc[b2] = "done" /\ req[b2].route = "register" /\ req[b2].method = "POST"
        /\ req[b2].username # "" /\ req[b2].password = ""
        /\ resp[b2].flashed = <<"Password is required">>

LogoutContract ==
    [][\A b \in Browsers :
          ViewRuns(b, "logout", "GET") =>
              /\ session'[b] = EmptySession
              /\ cookie'[b] = EmptySession
              /\ IsNone(load_logged_in_user(cookie'[b], user'))
              /\ user' = user
              /\ resp'[b] = Redirect("index")]_vars

\* C8: a browser session becomes authenticated only by a login POST with
\* valid credentials, as the user of those credentials and with a redirect to
\* index, which every such login does; it becomes anonymous only by a logout,
\* with a redirect to index, which every logout does.
AuthStateMachine ==
    [][\A b \in Browsers :
          /\ ( ~Authenticated(cookie[b]) /\ Authenticated(cookie'[b]) )
             => ViewRuns(b, "login", "POST") /\ ValidCredentials(b)
          /\ ( ViewRuns(b, "login", "POST") /\ ValidCredentials(b) )
             => /\ Authenticated(cookie'[b])
                /\ cookie'[b]["user_id"] = SelectByUsername(user, req[b].username).id
                /\ resp'[b] = Redirect("index")
          /\ ( Authenticated(cookie[b]) /\ ~Authenticated(cookie'[b]) )
             => ViewRuns(b, "logout", "GET")
          /\ ViewRuns(b, "logout", "GET")
             => ~Authenticated(cookie'[b]) /\ resp'[b] = Redirect("index")]_vars

\* C9: table user changes only in the commit of a register POST, which adds
\* rows; no row is removed or changed, so the id in a session keeps naming
\* the row it named.
UserTableOnlyGrows ==
    [][/\ user \subseteq user'
       /\ user' # user =>
             \E b \in Browsers :
                 /\ pc[b] = "commit" /\ pc'[b] = "done"
                 /\ req[b].route = "register" /\ req[b].method = "POST"
       /\ \A r \in user : SelectById(user', r.id) = r
       /\ \A b \in Browsers :
             Authenticated(cookie[b]) =>
                 /\ ~IsNone(SelectById(user, cookie[b]["user_id"]))
                 /\ SelectById(user', cookie[b]["user_id"])
                        = SelectById(user, cookie[b]["user_id"])]_vars

RegisteredAfterLogin ==
    \E b1, b2 \in Browsers :
        /\ Authenticated(cookie[b1]) /\ cookie[b1]["user_id"] = 1
        /\ pc[b2] = "done" /\ req[b2].route = "register"
        /\ resp[b2] = Redirect("auth.login")
        /\ \E r \in user : r.id = 2 /\ r.username = req[b2].username

\* C10: a login POST that fails leaves the user id of the session in place,
\* and the identity load of the next request finds the same user.
FailedLoginKeepsSession ==
    [][\A b \in Browsers :
          ( /\ ViewRuns(b, "login", "POST")
            /\ ~ValidCredentials(b)
            /\ Authenticated(cookie[b]) )
          => /\ Authenticated(cookie'[b])
             /\ cookie'[b]["user_id"] = cookie[b]["user_id"]
             /\ session'[b]["user_id"] = cookie[b]["user_id"]
             /\ ~IsNone(load_logged_in_user(cookie'[b], user'))
             /\ load_logged_in_user(cookie'[b], user')
                    = load_logged_in_user(cookie[b], user)]_vars

FailedLoginWhileLoggedIn ==
    \E b \in Browsers :
        /\ pc[b] = "done" /\ req[b].route = "login" /\ req[b].method = "POST"
        /\ resp[b].kind = "render" /\ resp[b].flashed = <<"Incorrect password.">>
        /\ Authenticated(cookie[b])

====
